---- MODULE Spec2Model ----
(***************************************************************************)
(* Link access and expiry engine of backend/server.py.                     *)
(*                                                                         *)
(* One link document is followed through its whole life (create_link,      *)
(* the viewer endpoints access_link and get_pdf_file, revoke_link,         *)
(* admin_revoke_link, delete_link, admin_delete_link and the cascade of    *)
(* delete_pdf).  Every "await db...." of a handler is one atomic store     *)
(* operation; the handlers of concurrent requests interleave between       *)
(* their awaits, so a handler with several awaits is a chain of actions    *)
(* linked by the request's position (pc).                                  *)
(*                                                                         *)
(* Time is counted in ticks, TicksPerSec ticks to the second, because      *)
(* datetime.now() is finer than the whole seconds of remaining_seconds.    *)
(***************************************************************************)
EXTENDS Integers, Sequences, FiniteSets, Bags, TLC

\* ------------------------------------------------------------------ bounds
MaxTime == 2
TicksPerSec == 2
MaxOpens == 2

\* ------------------------------------------------------- program constants
LogCap == 100

\* An optional value is a sequence: <<>> is Python's None.
None == <<>>

\* the requests of the viewer endpoints that can be in flight together
Procs == {1, 2}
Users == {"u1"}

\* A client address is the sequence of the labels its dots separate:
\* <<"a">> stands for an address without dots (an IPv6 address, "unknown"),
\* <<"10", "1">> for a dotted IPv4 address.
Ips == {<<"a">>, <<"10", "1">>}

\* inputs of create_link: expiry_mode, the countdown in whole seconds
\* (expiry_hours * 3600 + expiry_minutes * 60 + expiry_seconds), the fixed
\* deadline (a time in ticks, or None) and custom_expired_message
Modes == {"countdown", "fixed", "manual"}
Durations == {1}
FixedDeadlines == {<<2>>}
Messages == {None}

VARIABLES now, users, pdf, link, req, out, del, stripe

vars == <<now, users, pdf, link, req, out, del, stripe>>

\* ----------------------------------------------------------------- helpers
Max(a, b) == IF a >= b THEN a ELSE b

\* datetime.isoformat() and datetime.fromisoformat(): the stored form of a
\* time is a string, tagged here so that it is never confused with a time.
IsoFormat(t) == <<"iso", t>>
FromIsoFormat(s) == s[2]

\* timedelta(seconds = n)
Seconds(n) == n * TicksPerSec

\* the remaining time without int(): the fraction of a second is kept
RemainingSeconds_exact(expires_at, t) == Max(0, expires_at - t)

\* max(0, int((expires_at - now).total_seconds()))
RemainingSeconds(expires_at, t) ==
    LET d == expires_at - t
        whole == IF d >= 0 THEN d \div TicksPerSec ELSE -((-d) \div TicksPerSec)
    IN Max(0, whole)

\* The keys of the ip_sessions document as Python sees them after find_one:
\* the store splits an update path at every dot, so only the first label of
\* each stored path is a key of the document itself.
TopKeys(sessions) == {<<q[1]>> : q \in DOMAIN sessions}

\* client_ip in ip_sessions
ClientIpIn(ip, sessions) == ip \in TopKeys(sessions)

\* a $set of the whole ip_sessions document: the other entries are lost
SetSessionPath_whole(sessions, ip, entry) == [q \in {ip} |-> entry]

\* {"$set": {f"ip_sessions.{client_ip}": entry}}
SetSessionPath(sessions, ip, entry) ==
    [q \in (DOMAIN sessions) \cup {ip} |-> IF q = ip THEN entry ELSE sessions[q]]

\* a $slice of 100 that keeps the oldest entries instead of the newest
PushSlice_first(log, entry) ==
    LET all == Append(log, entry)
    IN IF Len(all) > LogCap THEN SubSeq(all, 1, LogCap) ELSE all

\* a $push without $slice
PushSlice_unbounded(log, entry) == Append(log, entry)

\* {"$push": {"access_log": {"$each": [entry], "$slice": -100}}}
PushSlice(log, entry) ==
    LET all == Append(log, entry)
    IN IF Len(all) > LogCap
       THEN SubSeq(all, Len(all) - LogCap + 1, Len(all))
       ELSE all

NoSessions == [q \in {} |-> None]

\* the link document of create_link; state tells whether the document was
\* never inserted ("none"), is in db.links ("stored") or was deleted ("gone")
BlankLink ==
    [state |-> "none", user_id |-> "", expiry_mode |-> "",
     expiry_duration_seconds |-> None, expires_at |-> None,
     first_open_at |-> None, open_count |-> 0, unique_ips |-> {},
     ip_sessions |-> NoSessions, status |-> "", custom_expired_message |-> None,
     access_log |-> <<>>]

\* db.links.find_one({"token": token}) finds a document
LinkStored == link.state = "stored"

\* a request that is not running
\* LinkAccessResponse, and for get_pdf_file the HTTP status alone
NoResp == [status |-> "", expires_at |-> None, remaining_seconds |-> None,
           message |-> None]

\* a request in flight: its endpoint (op), its position (pc), the client
\* address, the link document it has read (snap), its clock reading (now;
\* get_pdf_file reads the clock only before its await and keeps 0 here)
\* and its response so far; req is the bag of the requests in flight
NewRequest(op, pc, ip) ==
    [op |-> op, pc |-> pc, ip |-> ip, snap |-> BlankLink, now |-> 0, resp |-> NoResp]

\* out is the response that the step just taken has sent, if it has sent
\* one: the endpoint, the client address, the clock reading of the request
\* (for the file served by get_pdf_file, the time it is served) and the
\* response
NoOut == [op |-> "", ip |-> <<>>, now |-> 0, resp |-> NoResp]

\* the Stripe settings: STRIPE_API_KEY of the environment, a string given
\* by its prefix and its last four characters, and the document
\* {"key": "stripe"} of db.platform_settings, absent at first
EmptyKey == <<"", "">>
DefaultKey == <<"sk_test_", "gent">>
NoStripe == [STRIPE_API_KEY |-> DefaultKey, doc |-> None]

\* -------------------------------------------------------------------- Init
Init ==
    /\ now = 0
    /\ users = [u \in Users |-> "absent"]
    /\ pdf = [state |-> "none", user_id |-> ""]
    /\ link = BlankLink
    /\ req = EmptyBag
    /\ out = NoOut
    /\ del = "idle"
    /\ stripe = NoStripe

\* the clock: datetime.now(timezone.utc) never goes back
Tick ==
    /\ now < MaxTime
    /\ now' = now + 1
    /\ out' = NoOut
    /\ UNCHANGED <<stripe, users, pdf, link, req, del>>

\* ------------------------------------------------------ accounts and files
\* register: a new account has subscription_status "inactive"
register(u) ==
    /\ users[u] = "absent"
    /\ users' = [users EXCEPT ![u] = "inactive"]
    /\ out' = NoOut
    /\ UNCHANGED <<stripe, now, pdf, link, req, del>>

\* admin_update_user (and the payment callbacks): sets subscription_status
admin_update_user(u, s) ==
    /\ users[u] # "absent"
    /\ users' = [users EXCEPT ![u] = s]
    /\ out' = NoOut
    /\ UNCHANGED <<stripe, now, pdf, link, req, del>>

\* upload_pdf: needs an active subscription; writes the file and the document
upload_pdf(u) ==
    /\ users[u] = "active"
    /\ pdf.state = "none"
    /\ pdf' = [state |-> "stored", user_id |-> u]
    /\ out' = NoOut
    /\ UNCHANGED <<stripe, now, users, link, req, del>>

\* ------------------------------------------------------------- create_link
\* expires_at of the new document: only mode "fixed" with a datetime has one
NewExpiresAt(mode, fixed) ==
    IF mode = "fixed" /\ fixed # None THEN IsoFormat(fixed[1]) ELSE None

\* expiry_duration_seconds of the new document
NewDuration(mode, d) == IF mode = "countdown" THEN <<d>> ELSE None

\* link_doc, once insert_one has stored it
LinkDoc(u, mode, d, fixed, msg) ==
    [BlankLink EXCEPT
       !.state = "stored", !.user_id = u, !.expiry_mode = mode,
       !.expiry_duration_seconds = NewDuration(mode, d),
       !.expires_at = NewExpiresAt(mode, fixed),
       !.status = "active", !.custom_expired_message = msg]

create_link(u, mode, d, fixed, msg) ==
    /\ users[u] # "absent"
    /\ link.state = "none"
    /\ pdf.state = "stored" /\ pdf.user_id = u
    /\ users[u] = "active"
    /\ link' = LinkDoc(u, mode, d, fixed, msg)
    /\ out' = NoOut
    /\ UNCHANGED <<stripe, now, users, pdf, req, del>>

\* ------------------------------------------------- revoke and delete a link
\* a revoke that switches a revoked link back on
SetRevoked_toggle(l) ==
    [l EXCEPT !.status = IF @ = "revoked" THEN "active" ELSE "revoked"]

\* {"$set": {"status": "revoked"}} on a matching document
SetRevoked(l) == [l EXCEPT !.status = "revoked"]

\* revoke_link: update_one({"link_id", "user_id"}); no match is a 404
revoke_link(u) ==
    /\ users[u] # "absent"
    /\ LinkStored /\ link.user_id = u
    /\ link' = SetRevoked(link)
    /\ out' = NoOut
    /\ UNCHANGED <<stripe, now, users, pdf, req, del>>

\* admin_revoke_link: update_one({"link_id"})
admin_revoke_link ==
    /\ LinkStored
    /\ link' = SetRevoked(link)
    /\ out' = NoOut
    /\ UNCHANGED <<stripe, now, users, pdf, req, del>>

\* delete_link: delete_one({"link_id", "user_id"})
delete_link(u) ==
    /\ users[u] # "absent"
    /\ LinkStored /\ link.user_id = u
    /\ link' = [BlankLink EXCEPT !.state = "gone"]
    /\ out' = NoOut
    /\ UNCHANGED <<stripe, now, users, pdf, req, del>>

\* admin_delete_link: delete_one({"link_id"})
admin_delete_link ==
    /\ LinkStored
    /\ link' = [BlankLink EXCEPT !.state = "gone"]
    /\ out' = NoOut
    /\ UNCHANGED <<stripe, now, users, pdf, req, del>>

\* -------------------------------------------------------------- delete_pdf
\* db.pdfs.find_one({"pdf_id", "user_id"}), the file is removed, then
\* db.pdfs.delete_one({"pdf_id"}) and the owner's storage_used is lowered
delete_pdf_delete_one(u) ==
    /\ del = "idle"
    /\ users[u] # "absent"
    /\ pdf.state = "stored" /\ pdf.user_id = u
    /\ pdf' = [pdf EXCEPT !.state = "deleted"]
    /\ del' = "deleted"
    /\ out' = NoOut
    /\ UNCHANGED <<stripe, now, users, link, req>>

\* a cascade that deletes the links of the file: delete_many({"pdf_id"})
delete_pdf_delete_links ==
    /\ del = "deleted"
    /\ link' = IF LinkStored THEN [BlankLink EXCEPT !.state = "gone"] ELSE link
    /\ del' = "idle"
    /\ out' = NoOut
    /\ UNCHANGED <<stripe, now, users, pdf, req>>

\* db.links.update_many({"pdf_id"}, {"$set": {"status": "revoked"}})
delete_pdf_revoke_links ==
    /\ del = "deleted"
    /\ link' = IF LinkStored THEN SetRevoked(link) ELSE link
    /\ del' = "idle"
    /\ out' = NoOut
    /\ UNCHANGED <<stripe, now, users, pdf, req>>

\* ------------------------------------------------------------- access_link
\* a worker is free to take a new request
FreeSlot == BagCardinality(req) < Cardinality(Procs)

\* the requests of access_link in flight
Opening == BagCardinality([r \in {x \in BagToSet(req) : x.op = "access_link"} |-> req[r]])

\* the handler reaches its next await: request r goes on as request r2
Continue(r, r2) ==
    /\ req' = (req (-) SetToBag({r})) (+) SetToBag({r2})
    /\ out' = NoOut

\* a new request reaches its first await after the find_one
Start(r) ==
    /\ req' = req (+) SetToBag({r})
    /\ out' = NoOut

\* the handler of request r returns: out is its response; t is the clock
\* reading of the request
Return(r, t, resp) ==
    /\ req' = req (-) SetToBag({r})
    /\ out' = [op |-> r.op, ip |-> r.ip, now |-> t, resp |-> resp]

\* a response that always carries the default message
OrDefault_fixed(msg, default) == default

\* custom_expired_message or "<default>": None and "" give the default
OrDefault(msg, default) == IF msg # None /\ msg[1] # "" THEN msg[1] ELSE default

\* LinkAccessResponse(status = ..., custom_expired_message = ...)
Denied(status, msg) == [NoResp EXCEPT !.status = status, !.message = <<msg>>]

\* a status check that lets a revoked link through
IsRevoked_blind(l) == FALSE

\* link["status"] == "revoked"
IsRevoked(l) == l.status = "revoked"

\* a subscription check that every owner passes
OwnerInactive_never(l) == FALSE

\* not user or user.get("subscription_status") != "active"
OwnerInactive(l) == users[l.user_id] # "active"

\* first_open + timedelta(seconds = link["expiry_duration_seconds"])
SessionExpiry(l, ip) ==
    FromIsoFormat(l.ip_sessions[ip].first_open) + Seconds(l.expiry_duration_seconds[1])

\* a session whose stored deadline is one second late
NewSession_late(l, t) ==
    [first_open |-> <<"iso", t>>,
     expires_at |-> <<"iso", t + (l.expiry_duration_seconds[1] + 1) * TicksPerSec>>]

\* the entry of a new address: {"first_open": now, "expires_at": now + duration}
NewSession(l, t) ==
    [first_open |-> IsoFormat(t),
     expires_at |-> IsoFormat(t + Seconds(l.expiry_duration_seconds[1]))]

\* link["expiry_mode"] == "fixed" and link.get("expires_at")
IsFixed(l) == l.expiry_mode = "fixed" /\ l.expires_at # None

\* the link as the handler holds it after find_one; open_count and access_log
\* are never read from it
Snapshot(l) == [l EXCEPT !.open_count = 0, !.access_log = <<>>]

\* what the handler still reads of the link once the expiry logic is done:
\* expiry_duration_seconds for the new session, unique_ips for update_ops
Retain(l) ==
    [BlankLink EXCEPT !.expiry_duration_seconds = l.expiry_duration_seconds,
                      !.unique_ips = l.unique_ips]

\* find_one({"token": token}), then the check of the status; the request is
\* taken while fewer than n opens are counted or under way
access_link_find_upto(ip, n) ==
    /\ FreeSlot
    /\ link.open_count + Opening < n
    /\ LET r == NewRequest("access_link", "user", ip)
       IN IF ~LinkStored
          THEN /\ out' = [op |-> r.op, ip |-> ip, now |-> now,
                          resp |-> [NoResp EXCEPT !.status = "404"]]
               /\ req' = req
          ELSE IF IsRevoked(link)
          THEN /\ out' = [op |-> r.op, ip |-> ip, now |-> now,
                          resp |-> Denied("revoked",
                              OrDefault(link.custom_expired_message,
                                        "This link has been revoked"))]
               /\ req' = req
          ELSE Start([r EXCEPT !.snap = Snapshot(link)])
    /\ UNCHANGED <<stripe, now, users, pdf, link, del>>

\* a lookup that tells a deleted link (410) from one that never was
access_link_find_gone(ip) ==
    IF link.state = "gone"
    THEN /\ FreeSlot
         /\ out' = [op |-> "access_link", ip |-> ip, now |-> now,
                    resp |-> [NoResp EXCEPT !.status = "410"]]
         /\ UNCHANGED <<stripe, now, users, pdf, link, req, del>>
    ELSE access_link_find_upto(ip, MaxOpens)

access_link_find(ip) == access_link_find_upto(ip, MaxOpens)

\* an inactive subscription that is also written to the link as expired
OwnerInactiveAnswer_persisted ==
    [pc |-> "expire", resp |-> Denied("expired", "The owner's subscription is inactive")]

\* the return of access_link when the owner's subscription is not active
OwnerInactiveAnswer ==
    [pc |-> "done", resp |-> Denied("expired", "The owner's subscription is inactive")]

\* what access_link decides from the link it read, once it has read the
\* owner and the clock (t): the next position and the response so far
AccessDecision(l, ip, t) ==
    IF OwnerInactive(l)
    THEN OwnerInactiveAnswer
    ELSE IF l.expiry_mode = "countdown"
    THEN IF ClientIpIn(ip, l.ip_sessions)
         THEN IF t >= SessionExpiry(l, ip)
              THEN [pc |-> "done",
                    resp |-> Denied("expired",
                        OrDefault(l.custom_expired_message, "Your viewing session has expired"))]
              ELSE [pc |-> "record",
                    resp |-> [NoResp EXCEPT
                        !.expires_at = <<SessionExpiry(l, ip)>>,
                        !.remaining_seconds = <<RemainingSeconds(SessionExpiry(l, ip), t)>>]]
         ELSE [pc |-> IF l.first_open_at = None THEN "first" ELSE "save",
               resp |-> [NoResp EXCEPT
                   !.expires_at = <<t + Seconds(l.expiry_duration_seconds[1])>>,
                   !.remaining_seconds = l.expiry_duration_seconds]]
    ELSE IF IsFixed(l)
    THEN IF t >= FromIsoFormat(l.expires_at)
         THEN [pc |-> "expire",
               resp |-> Denied("expired",
                   OrDefault(l.custom_expired_message, "This link has expired"))]
         ELSE [pc |-> "record",
               resp |-> [NoResp EXCEPT
                   !.expires_at = <<FromIsoFormat(l.expires_at)>>,
                   !.remaining_seconds = <<RemainingSeconds(FromIsoFormat(l.expires_at), t)>>]]
    ELSE [pc |-> "record", resp |-> NoResp]

\* db.users.find_one, datetime.now and the expiry logic up to the next await
access_link_user(r) ==
    /\ r.pc = "user"
    /\ LET dec == AccessDecision(r.snap, r.ip, now)
       IN IF dec.pc = "done"
          THEN Return(r, now, dec.resp)
          ELSE Continue(r, [r EXCEPT !.pc = dec.pc, !.resp = dec.resp, !.now = now,
                                      !.snap = Retain(@)])
    /\ UNCHANGED <<stripe, now, users, pdf, link, del>>

\* an update with upsert: without a match the document is inserted
UpdateOne_upsert(l, new) == [new EXCEPT !.state = "stored"]

\* update_one({"token": token}, ...): without a match nothing is written
UpdateOne(l, new) == IF l.state = "stored" THEN new ELSE l

\* update_one({"token"}, {"$set": {"first_open_at": now}})
SetFirstOpen(l, t) == [l EXCEPT !.first_open_at = IsoFormat(t)]

access_link_first_open(r) ==
    /\ r.pc = "first"
    /\ link' = UpdateOne(link, SetFirstOpen(link, r.now))
    /\ Continue(r, [r EXCEPT !.pc = "save"])
    /\ UNCHANGED <<stripe, now, users, pdf, del>>

\* update_one({"token"}, {"$set": {f"ip_sessions.{client_ip}": session}})
SaveSession(l, ip, session) ==
    [l EXCEPT !.ip_sessions = SetSessionPath(l.ip_sessions, ip, session)]

access_link_save_session(r) ==
    /\ r.pc = "save"
    /\ link' = UpdateOne(link, SaveSession(link, r.ip, NewSession(r.snap, r.now)))
    /\ Continue(r, [r EXCEPT !.pc = "record"])
    /\ UNCHANGED <<stripe, now, users, pdf, del>>

\* an expiry that is also counted as an open
SetExpired_counted(l) == [l EXCEPT !.status = "expired", !.open_count = @ + 1]

\* update_one({"token"}, {"$set": {"status": "expired"}})
SetExpired(l) == [l EXCEPT !.status = "expired"]

access_link_expire(r) ==
    /\ r.pc = "expire"
    /\ link' = UpdateOne(link, SetExpired(link))
    /\ Return(r, r.now, r.resp)
    /\ UNCHANGED <<stripe, now, users, pdf, del>>

\* the access entry (the user agent, cut to 200 characters, is left out)
AccessEntry(ip, t) == [ip |-> ip, timestamp |-> IsoFormat(t)]

\* the access written back from the document the handler read instead of
\* $inc, $push and $addToSet
RecordAccess_readback(l, snap, ip, t) ==
    [l EXCEPT !.open_count = snap.open_count + 1,
              !.access_log = Append(snap.access_log, [ip |-> ip, timestamp |-> <<"iso", t>>]),
              !.unique_ips = snap.unique_ips \cup {ip}]

\* update_ops without the $inc of open_count
RecordAccess_noinc(l, snap, ip, t) ==
    [l EXCEPT !.access_log = Append(@, [ip |-> ip, timestamp |-> <<"iso", t>>]),
              !.unique_ips = @ \cup {ip}]

\* update_ops: $inc open_count, $push access_log with $slice, and $addToSet
\* unique_ips when the address is not in the unique_ips that were read
RecordAccess(l, snap, ip, t) ==
    [l EXCEPT !.open_count = @ + 1,
              !.access_log = PushSlice(@, AccessEntry(ip, t)),
              !.unique_ips = IF ip \notin snap.unique_ips THEN @ \cup {ip} ELSE @]

access_link_record(r) ==
    /\ r.pc = "record"
    /\ link' = UpdateOne(link, RecordAccess(link, r.snap, r.ip, r.now))
    /\ Return(r, r.now, [r.resp EXCEPT !.status = "active"])
    /\ UNCHANGED <<stripe, now, users, pdf, del>>

\* ------------------------------------------------------------ get_pdf_file
\* get_pdf_file without the 403 of an address that has no session
PdfDecision_open(l, ip, t) ==
    IF l.state # "stored" \/ l.status = "revoked" THEN [pc |-> "done", status |-> "404"]
    ELSE IF l.expiry_mode = "countdown" /\ ClientIpIn(ip, l.ip_sessions)
            /\ t >= FromIsoFormat(l.ip_sessions[ip].expires_at)
    THEN [pc |-> "done", status |-> "410"]
    ELSE IF l.expiry_mode = "fixed" /\ l.expires_at # None /\ t >= FromIsoFormat(l.expires_at)
    THEN [pc |-> "done", status |-> "410"]
    ELSE [pc |-> "pdf", status |-> ""]

\* the position and HTTP status get_pdf_file reaches from the link it read
PdfDecision(l, ip, t) ==
    IF l.state # "stored" \/ IsRevoked(l) THEN [pc |-> "done", status |-> "404"]
    ELSE IF l.expiry_mode = "countdown"
    THEN IF ClientIpIn(ip, l.ip_sessions)
         THEN IF t >= FromIsoFormat(l.ip_sessions[ip].expires_at)
              THEN [pc |-> "done", status |-> "410"]
              ELSE [pc |-> "pdf", status |-> ""]
         ELSE [pc |-> "done", status |-> "403"]
    ELSE IF IsFixed(l) /\ t >= FromIsoFormat(l.expires_at)
    THEN [pc |-> "done", status |-> "410"]
    ELSE [pc |-> "pdf", status |-> ""]

\* get_pdf_file starting the countdown of an address it does not know
get_pdf_file_find_session(ip) ==
    /\ FreeSlot
    /\ LinkStored /\ link.expiry_mode = "countdown"
    /\ link' = [link EXCEPT !.ip_sessions =
                   [q \in (DOMAIN @) \cup {ip} |->
                      IF q = ip THEN [first_open |-> <<"iso", now>>, expires_at |-> <<"iso", now>>]
                      ELSE @[q]]]
    /\ req' = req (+) SetToBag({NewRequest("get_pdf_file", "pdf", ip)})
    /\ out' = NoOut
    /\ UNCHANGED <<stripe, now, users, pdf, del>>

\* find_one({"token": token}) and the checks up to the next await
get_pdf_file_find(ip) ==
    /\ FreeSlot
    /\ LET dec == PdfDecision(link, ip, now)
           r == NewRequest("get_pdf_file", "pdf", ip)
       IN IF dec.pc = "done"
          THEN /\ out' = [op |-> r.op, ip |-> ip, now |-> now,
                          resp |-> [NoResp EXCEPT !.status = dec.status]]
               /\ req' = req
          ELSE Start(r)
    /\ UNCHANGED <<stripe, now, users, pdf, link, del>>

\* db.pdfs.find_one({"pdf_id"}), file_path.exists(), FileResponse
PdfServe(f) == IF f.state = "stored" THEN "200" ELSE "404"

get_pdf_file_serve(r) ==
    /\ r.pc = "pdf"
    /\ Return(r, now, [NoResp EXCEPT !.status = PdfServe(pdf)])
    /\ UNCHANGED <<stripe, now, users, pdf, link, del>>

\* the viewer endpoints: a new request from any address, or the next step
\* of a request in flight
AccessLink ==
    \/ \E ip \in Ips : access_link_find(ip)
    \/ \E r \in BagToSet(req) : access_link_user(r)
    \/ \E r \in BagToSet(req) : access_link_first_open(r)
    \/ \E r \in BagToSet(req) : access_link_save_session(r)
    \/ \E r \in BagToSet(req) : access_link_expire(r)
    \/ \E r \in BagToSet(req) : access_link_record(r)

GetPdfFile ==
    \/ \E ip \in Ips : get_pdf_file_find(ip)
    \/ \E r \in BagToSet(req) : get_pdf_file_serve(r)

\* the owner's and the administrator's endpoints
Owner ==
    \/ \E u \in Users : register(u)
    \/ \E u \in Users, s \in {"active", "inactive"} : admin_update_user(u, s)
    \/ \E u \in Users : upload_pdf(u)
    \/ \E u \in Users, mode \in Modes, d \in Durations, fixed \in FixedDeadlines,
          msg \in Messages : create_link(u, mode, d, fixed, msg)
    \/ \E u \in Users : revoke_link(u)
    \/ admin_revoke_link
    \/ \E u \in Users : delete_link(u)
    \/ admin_delete_link
    \/ \E u \in Users : delete_pdf_delete_one(u)
    \/ delete_pdf_revoke_links

Next == Tick \/ Owner \/ AccessLink \/ GetPdfFile

Spec == Init /\ [][Next]_vars

\* the same endpoints when a viewer request is only sent once the one before
\* it has been answered: the calls of the viewers never overlap
SeqAccessLink ==
    \/ req = EmptyBag /\ \E ip \in Ips : access_link_find(ip)
    \/ \E r \in BagToSet(req) : access_link_user(r)
    \/ \E r \in BagToSet(req) : access_link_first_open(r)
    \/ \E r \in BagToSet(req) : access_link_save_session(r)
    \/ \E r \in BagToSet(req) : access_link_expire(r)
    \/ \E r \in BagToSet(req) : access_link_record(r)

SeqGetPdfFile ==
    \/ req = EmptyBag /\ \E ip \in Ips : get_pdf_file_find(ip)
    \/ \E r \in BagToSet(req) : get_pdf_file_serve(r)

SeqNext == Tick \/ Owner \/ SeqAccessLink \/ SeqGetPdfFile

SeqSpec == Init /\ [][SeqNext]_vars

\* ------------------------------------------------- a link with a long log
\* the access_log of a link that n calls of access_link have opened, all in
\* the first tick, the two addresses taking turns
PastLog(n) ==
    [i \in 1..n |-> AccessEntry(IF i % 2 = 1 THEN <<"a">> ELSE <<"10", "1">>, 0)]

\* a manual link of a subscribed owner that was opened n times
OpenedLink(n) ==
    [BlankLink EXCEPT !.state = "stored", !.user_id = "u1", !.expiry_mode = "manual",
                      !.status = "active", !.open_count = n, !.unique_ips = Ips,
                      !.access_log = PastLog(n)]

\* the state after LogCap - 1 or LogCap opens of such a link
LogInit ==
    /\ now = 0
    /\ users = [u \in Users |-> "active"]
    /\ pdf = [state |-> "stored", user_id |-> "u1"]
    /\ link \in {OpenedLink(n) : n \in {LogCap - 1, LogCap}}
    /\ req = EmptyBag
    /\ out = NoOut
    /\ del = "idle"
    /\ stripe = NoStripe

\* access_link goes on from there for MaxOpens more opens
LogAccessLink ==
    \/ \E ip \in Ips : access_link_find_upto(ip, LogCap + MaxOpens)
    \/ \E r \in BagToSet(req) : access_link_user(r)
    \/ \E r \in BagToSet(req) : access_link_record(r)

LogNext == Tick \/ LogAccessLink

LogSpec == LogInit /\ [][LogNext]_vars

\* ------------------------------------------- create_link, await by await
\* Two accounts, and every body that LinkCreate accepts: the countdown is
\* the sum of three Optional[int] fields with default 0, so it is any
\* integer, or None when a field is sent as null; expiry_fixed_datetime is
\* optional in every mode.
Accounts == {"u1", "u2"}
ExpirySeconds == {None, <<-1>>, <<0>>, <<1>>}
ExpiryFixedDatetimes == {None, <<2>>}

\* a create_link in flight: the user document that get_current_user has
\* read and the body of the request
CreateRequest(u, sub, mode, secs, fixed) ==
    [op |-> "create_link", pc |-> "find", ip |-> <<>>,
     user |-> [user_id |-> u, subscription_status |-> sub],
     link_data |-> [expiry_mode |-> mode, expiry_seconds |-> secs,
                    expiry_fixed_datetime |-> fixed]]

\* db.links holds one document here: a create_link that could store a
\* second one is not started
OneLink(u, sub) ==
    \/ link.state = "none"
    \/ sub # "active"
    \/ pdf.state # "none" /\ ~(pdf.state = "stored" /\ pdf.user_id = u)

\* get_current_user: the caller's user document is read
create_link_auth(u, mode, secs, fixed) ==
    /\ users[u] # "absent"
    /\ req = EmptyBag
    /\ OneLink(u, users[u])
    /\ Start(CreateRequest(u, users[u], mode, secs, fixed))
    /\ UNCHANGED <<stripe, now, users, pdf, link, del>>

\* a lookup of the file by pdf_id alone
CreateDecision_anyowner(r) ==
    IF pdf.state # "stored" THEN "404"
    ELSE IF r.user.subscription_status # "active" THEN "403"
    ELSE IF r.link_data.expiry_mode = "countdown" /\ r.link_data.expiry_seconds = None
    THEN "500"
    ELSE "insert"

\* what create_link does with the result of db.pdfs.find_one: 404 without a
\* document of the caller's, 403 without an active subscription in the user
\* document read before, a TypeError (500) on None * 3600, else link_doc
CreateDecision(r) ==
    IF ~(pdf.state = "stored" /\ pdf.user_id = r.user.user_id) THEN "404"
    ELSE IF r.user.subscription_status # "active" THEN "403"
    ELSE IF r.link_data.expiry_mode = "countdown" /\ r.link_data.expiry_seconds = None
    THEN "500"
    ELSE "insert"

\* db.pdfs.find_one({"pdf_id", "user_id"}) and the checks up to insert_one
create_link_find(r) ==
    /\ r.op = "create_link" /\ r.pc = "find"
    /\ IF CreateDecision(r) = "insert"
       THEN Continue(r, [r EXCEPT !.pc = "insert"])
       ELSE Return(r, 0, [NoResp EXCEPT !.status = CreateDecision(r)])
    /\ UNCHANGED <<stripe, now, users, pdf, link, del>>

\* db.links.insert_one(link_doc) and the LinkResponse
create_link_insert(r) ==
    /\ r.op = "create_link" /\ r.pc = "insert"
    /\ link' = LinkDoc(r.user.user_id, r.link_data.expiry_mode,
                       IF r.link_data.expiry_seconds = None THEN 0
                       ELSE r.link_data.expiry_seconds[1],
                       r.link_data.expiry_fixed_datetime, None)
    /\ Return(r, 0, [NoResp EXCEPT !.status = "200"])
    /\ UNCHANGED <<stripe, now, users, pdf, del>>

CreateInit ==
    /\ now = 0
    /\ users = [u \in Accounts |-> "absent"]
    /\ pdf = [state |-> "none", user_id |-> ""]
    /\ link = BlankLink
    /\ req = EmptyBag
    /\ out = NoOut
    /\ del = "idle"
    /\ stripe = NoStripe

CreateNext ==
    \/ \E u \in Accounts : register(u)
    \/ \E u \in Accounts, s \in {"active", "inactive"} : admin_update_user(u, s)
    \/ \E u \in Accounts : upload_pdf(u)
    \/ \E u \in Accounts : delete_pdf_delete_one(u)
    \/ delete_pdf_revoke_links
    \/ \E u \in Accounts, mode \in Modes, secs \in ExpirySeconds,
          fixed \in ExpiryFixedDatetimes : create_link_auth(u, mode, secs, fixed)
    \/ \E r \in BagToSet(req) : create_link_find(r)
    \/ \E r \in BagToSet(req) : create_link_insert(r)

CreateSpec == CreateInit /\ [][CreateNext]_vars

\* ------------------------------------------- the owner's calls on a link
\* the response of an endpoint behind get_current_user: the caller, the
\* HTTP status and the body
OwnerAnswer(op, u, status, body) ==
    [op |-> op, ip |-> <<>>, now |-> 0, resp |-> [NoResp EXCEPT !.status = status],
     user |-> u, body |-> body]

\* a filter by link_id alone
OwnLink_any(u) == LinkStored

\* the filter {"link_id": link_id, "user_id": user["user_id"]} matches
OwnLink(u) == LinkStored /\ link.user_id = u

\* a revoke that answers by modified_count: 404 when nothing was changed
revoke_link_modified(u) ==
    /\ users[u] # "absent"
    /\ IF OwnLink(u) /\ link.status # "revoked"
       THEN /\ link' = SetRevoked(link)
            /\ out' = OwnerAnswer("revoke_link", u, "200", <<"Link revoked successfully">>)
       ELSE /\ link' = link
            /\ out' = OwnerAnswer("revoke_link", u, "404", <<"Link not found">>)
    /\ UNCHANGED <<stripe, now, users, pdf, req, del>>

\* revoke_link with its response: matched_count == 0 is a 404
revoke_link_response(u) ==
    /\ users[u] # "absent"
    /\ IF OwnLink(u)
       THEN /\ link' = SetRevoked(link)
            /\ out' = OwnerAnswer("revoke_link", u, "200", <<"Link revoked successfully">>)
       ELSE /\ link' = link
            /\ out' = OwnerAnswer("revoke_link", u, "404", <<"Link not found">>)
    /\ UNCHANGED <<stripe, now, users, pdf, req, del>>

\* delete_link with its response: deleted_count == 0 is a 404
delete_link_response(u) ==
    /\ users[u] # "absent"
    /\ IF OwnLink(u)
       THEN /\ link' = [BlankLink EXCEPT !.state = "gone"]
            /\ out' = OwnerAnswer("delete_link", u, "200", <<"Link deleted successfully">>)
       ELSE /\ link' = link
            /\ out' = OwnerAnswer("delete_link", u, "404", <<"Link not found">>)
    /\ UNCHANGED <<stripe, now, users, pdf, req, del>>

\* get_links: db.links.find({"user_id": user["user_id"]})
get_links(u) ==
    /\ users[u] # "absent"
    /\ out' = OwnerAnswer("get_links", u, "200", IF OwnLink(u) THEN <<link>> ELSE <<>>)
    /\ UNCHANGED <<stripe, now, users, pdf, link, req, del>>

\* link.get("access_log", [])[-50:]
StatsLogLen == 50
LastEntries(log, n) ==
    IF Len(log) <= n THEN log ELSE SubSeq(log, Len(log) - n + 1, Len(log))

\* the body of get_link_stats
LinkStats(l) ==
    [open_count |-> l.open_count, unique_ips |-> l.unique_ips,
     unique_ip_count |-> Cardinality(l.unique_ips),
     access_log |-> LastEntries(l.access_log, StatsLogLen),
     ip_sessions |-> l.ip_sessions, status |-> l.status,
     first_open_at |-> l.first_open_at, expires_at |-> l.expires_at]

\* get_link_stats: find_one({"link_id", "user_id"}), no document is a 404
get_link_stats(u) ==
    /\ users[u] # "absent"
    /\ out' = IF OwnLink(u)
              THEN OwnerAnswer("get_link_stats", u, "200", <<LinkStats(link)>>)
              ELSE OwnerAnswer("get_link_stats", u, "404", <<"Link not found">>)
    /\ UNCHANGED <<stripe, now, users, pdf, link, req, del>>

OwnerInit == CreateInit

OwnerNext ==
    \/ Tick
    \/ \E u \in Accounts : register(u)
    \/ \E u \in Accounts, s \in {"active", "inactive"} : admin_update_user(u, s)
    \/ \E u \in Accounts : upload_pdf(u)
    \/ \E u \in Accounts, mode \in Modes, d \in Durations, fixed \in FixedDeadlines,
          msg \in Messages : create_link(u, mode, d, fixed, msg)
    \/ SeqAccessLink
    \/ \E u \in Accounts : revoke_link_response(u)
    \/ \E u \in Accounts : delete_link_response(u)
    \/ \E u \in Accounts : get_links(u)
    \/ \E u \in Accounts : get_link_stats(u)

OwnerSpec == OwnerInit /\ [][OwnerNext]_vars

\* ------------------------------------------------- tokens in db.links
\* Here link is the whole collection db.links, in the order of insertion:
\* link[i] is the document with the i-th link_id, kept with state "gone"
\* once it is deleted. secrets.token_urlsafe(32) is a choice from Tokens.
Tokens == {"t1", "t2"}
MaxLinks == 3

\* create_link: token = secrets.token_urlsafe(32) and insert_one(link_doc);
\* the collection has no unique index and the handler looks up no token
create_link_with_token(u, tok) ==
    /\ Len(link) < MaxLinks
    /\ users[u] # "absent"
    /\ pdf.state = "stored" /\ pdf.user_id = u
    /\ users[u] = "active"
    /\ link' = Append(link, [state |-> "stored", user_id |-> u, token |-> tok,
                              status |-> "active"])
    /\ out' = NoOut
    /\ UNCHANGED <<stripe, now, users, pdf, req, del>>

\* delete_link: delete_one({"link_id", "user_id"})
delete_link_of(u, i) ==
    /\ users[u] # "absent"
    /\ link[i].state = "stored" /\ link[i].user_id = u
    /\ link' = [link EXCEPT ![i].state = "gone"]
    /\ out' = NoOut
    /\ UNCHANGED <<stripe, now, users, pdf, req, del>>

TokenInit ==
    /\ now = 0
    /\ users = [u \in Users |-> "absent"]
    /\ pdf = [state |-> "none", user_id |-> ""]
    /\ link = <<>>
    /\ req = EmptyBag
    /\ out = NoOut
    /\ del = "idle"
    /\ stripe = NoStripe

TokenNext ==
    \/ \E u \in Users : register(u)
    \/ \E u \in Users, s \in {"active", "inactive"} : admin_update_user(u, s)
    \/ \E u \in Users : upload_pdf(u)
    \/ \E u \in Users, tok \in Tokens : create_link_with_token(u, tok)
    \/ \E u \in Users, i \in DOMAIN link : delete_link_of(u, i)

TokenSpec == TokenInit /\ [][TokenNext]_vars

\* ------------------------------------------- links with a custom message
\* custom_expired_message of LinkCreate: absent, empty or a text
AnyMessages == {None, <<"">>, <<"gone">>}

MsgNext ==
    \/ Tick
    \/ \E u \in Users : register(u)
    \/ \E u \in Users, s \in {"active", "inactive"} : admin_update_user(u, s)
    \/ \E u \in Users : upload_pdf(u)
    \/ \E u \in Users, mode \in Modes, d \in Durations, fixed \in FixedDeadlines,
          msg \in AnyMessages : create_link(u, mode, d, fixed, msg)
    \/ \E u \in Users : revoke_link(u)
    \/ SeqAccessLink

MsgSpec == Init /\ [][MsgNext]_vars

\* ------------------------------------------------- admin Stripe settings
\* keys: the empty string, a test key, a live key and a key of another kind
StripeKeys == {EmptyKey, <<"sk_test_", "t123">>, <<"sk_live_", "l123">>, <<"pk_", "p123">>}

\* the fields of StripeConfigUpdate, both optional
KeyInputs == {None} \cup {<<k>> : k \in StripeKeys}
ModeInputs == {None, <<"sandbox">>, <<"live">>, <<"test">>, <<"">>}

\* key.startswith(prefix)
StartsWith(key, prefix) == key[1] = prefix

\* the response of an admin endpoint
AdminAnswer(op, status, body) ==
    [op |-> op, ip |-> <<>>, now |-> 0, resp |-> [NoResp EXCEPT !.status = status],
     body |-> body]

\* doc.get(field, default)
DocGet(doc, field, default) == IF doc[field] = None THEN default ELSE doc[field][1]

\* the body of admin_get_stripe_settings
StripeSettings(st) ==
    LET env == st.STRIPE_API_KEY
        stored == IF st.doc = None THEN EmptyKey ELSE DocGet(st.doc[1], "stripe_key", EmptyKey)
        active == IF st.doc = None THEN env
                  ELSE IF stored # EmptyKey THEN stored ELSE env
    IN [mode |-> IF st.doc # None THEN DocGet(st.doc[1], "mode", "sandbox")
                 ELSE IF StartsWith(env, "sk_test_") THEN "sandbox" ELSE "live",
        has_live_key |-> IF st.doc # None
                         THEN stored # EmptyKey /\ StartsWith(stored, "sk_live_")
                         ELSE StartsWith(env, "sk_live_"),
        active_key_type |-> IF StartsWith(active, "sk_live_") THEN "live" ELSE "sandbox",
        key_preview |-> IF active # EmptyKey THEN <<"sk_...", active[2]>>
                        ELSE <<"Not configured">>,
        sandbox_active |-> ~StartsWith(active, "sk_live_")]

admin_get_stripe_settings ==
    /\ out' = AdminAnswer("admin_get_stripe_settings", "200", StripeSettings(stripe))
    /\ UNCHANGED <<now, users, pdf, link, req, del, stripe>>

\* an update that stores the mode it is given
StripeUpdateDecision_anymode(key, mode) ==
    IF key # None /\ key[1] # EmptyKey
       /\ ~(StartsWith(key[1], "sk_test_") \/ StartsWith(key[1], "sk_live_"))
    THEN "Invalid Stripe key format"
    ELSE "ok"

\* the checks of admin_update_stripe_settings, the key first
StripeUpdateDecision(key, mode) ==
    IF key # None /\ key[1] # EmptyKey
       /\ ~(StartsWith(key[1], "sk_test_") \/ StartsWith(key[1], "sk_live_"))
    THEN "Invalid Stripe key format"
    ELSE IF mode # None /\ mode[1] \notin {"sandbox", "live"}
    THEN "Mode must be 'sandbox' or 'live'"
    ELSE "ok"

\* update_one({"key": "stripe"}, {"$set": update_data}, upsert = True): the
\* fields that were given are set (updated_at is left out)
StripeUpsert(doc, key, mode) ==
    LET old == IF doc = None THEN [stripe_key |-> None, mode |-> None] ELSE doc[1]
    IN <<[stripe_key |-> IF key # None THEN key ELSE old.stripe_key,
          mode |-> IF mode # None THEN mode ELSE old.mode]>>

admin_update_stripe_settings(key, mode) ==
    /\ IF StripeUpdateDecision(key, mode) = "ok"
       THEN /\ stripe' = [stripe EXCEPT !.doc = StripeUpsert(@, key, mode)]
            /\ out' = AdminAnswer("admin_update_stripe_settings", "200",
                                  <<"Stripe settings updated successfully">>)
       ELSE /\ stripe' = stripe
            /\ out' = AdminAnswer("admin_update_stripe_settings", "400",
                                  <<StripeUpdateDecision(key, mode)>>)
    /\ UNCHANGED <<now, users, pdf, link, req, del>>

StripeInit ==
    /\ now = 0
    /\ users = [u \in Users |-> "absent"]
    /\ pdf = [state |-> "none", user_id |-> ""]
    /\ link = BlankLink
    /\ req = EmptyBag
    /\ out = NoOut
    /\ del = "idle"
    /\ stripe \in {[NoStripe EXCEPT !.STRIPE_API_KEY = k] : k \in StripeKeys \cup {DefaultKey}}

StripeNext ==
    \/ admin_get_stripe_settings
    \/ \E key \in KeyInputs, mode \in ModeInputs : admin_update_stripe_settings(key, mode)

StripeSpec == StripeInit /\ [][StripeNext]_vars

\* ============================================================== properties
\* the requests of access_link that found no session for their address and
\* have not yet saved their own
FirstTime == {r \in BagToSet(req) : r.op = "access_link" /\ r.pc \in {"first", "save"}}

\* C1: concurrent first-time Resolve calls of one viewer identity all return
\* the same deadline (expires_at), that of the one session stored for it.
C1_SameDeadline ==
    \A r1, r2 \in FirstTime : r1.ip = r2.ip => r1.resp.expires_at = r2.resp.expires_at

\* C2: an entry of ip_sessions, once stored, keeps its first_open and
\* expires_at and is never removed, whatever Resolve, Fetch, revoke_link and
\* the cascade of delete_pdf do (the link is not deleted).
C2_SessionWriteOnce ==
    [][(LinkStored /\ link'.state = "stored") =>
         \A ip \in DOMAIN link.ip_sessions :
            /\ ip \in DOMAIN link'.ip_sessions
            /\ link'.ip_sessions[ip] = link.ip_sessions[ip]]_vars

Answers(r) ==
    /\ req' = req (-) SetToBag({r})
    /\ out'.op = r.op
    /\ out'.ip = r.ip

C4_RevokedKept ==
    [][(LinkStored /\ link.status = "revoked" /\ (AccessLink \/ GetPdfFile)) =>
         link'.status = "revoked"]_vars

\* ---- C5
\* the deadline of the session stored at the path of address ip: its
\* first_open plus the countdown of the link
Deadline(l, ip) ==
    l.ip_sessions[ip].first_open[2] + l.expiry_duration_seconds[1] * TicksPerSec

\* C5: on a countdown link (owner subscribed), calls never overlapping, an
\* access_link of an address whose session is stored goes on to "active" with
\* the deadline of that session and the whole seconds left to it when the
\* clock is before the deadline, and answers "expired" from the deadline on;
\* a get_pdf_file of that address from the deadline on answers 410.
C5_NoReset ==
    [][/\ \A r \in BagToSet(req) :
            (/\ access_link_user(r)
             /\ r.snap.expiry_mode = "countdown"
             /\ r.ip \in DOMAIN r.snap.ip_sessions
             /\ users[r.snap.user_id] = "active")
            => IF now < Deadline(r.snap, r.ip)
               THEN \E r2 \in BagToSet(req') :
                       /\ r2.ip = r.ip /\ r2.pc \in {"first", "save", "record"}
                       /\ r2.resp.expires_at = <<Deadline(r.snap, r.ip)>>
                       /\ r2.resp.remaining_seconds =
                             <<(Deadline(r.snap, r.ip) - now) \div TicksPerSec>>
               ELSE out'.resp.status = "expired"
       /\ \A ip \in Ips :
            (/\ get_pdf_file_find(ip)
             /\ LinkStored /\ link.status # "revoked"
             /\ link.expiry_mode = "countdown"
             /\ ip \in DOMAIN link.ip_sessions
             /\ now >= Deadline(link, ip))
            => out'.resp.status = "410"]_vars

\* ---- C6
\* a step of a viewer request of address ip
ViewerStep(ip) ==
    \/ access_link_find(ip)
    \/ get_pdf_file_find(ip)
    \/ \E r \in BagToSet(req) :
          /\ r.ip = ip
          /\ \/ access_link_user(r)
             \/ access_link_first_open(r)
             \/ access_link_save_session(r)
             \/ access_link_expire(r)
             \/ access_link_record(r)
             \/ get_pdf_file_serve(r)

\* the link as it would be had no address but ip ever opened it
OnlyViewer(l, ip) ==
    [l EXCEPT !.ip_sessions = [q \in (DOMAIN @) \cap {ip} |-> @[q]],
              !.unique_ips = @ \cap {ip},
              !.first_open_at = IF ip \in DOMAIN l.ip_sessions
                                THEN l.ip_sessions[ip].first_open ELSE None]

\* C6: a step of a request of address b leaves the stored session of every
\* other address as it is: a step that changes or removes the entry of a is
\* not a step of a request of another address b.
C6_Frame ==
    [][\A b \in Ips : \A a \in (DOMAIN link.ip_sessions) \ {b} :
          (/\ link'.state = "stored"
           /\ \/ a \notin DOMAIN link'.ip_sessions
              \/ link'.ip_sessions[a] # link.ip_sessions[a])
          => ~ViewerStep(b)]_vars

\* C6: what access_link and get_pdf_file answer to an address at a given time
\* is what they would answer had no other address opened the link.
C6_SameResult ==
    /\ \A r \in BagToSet(req) :
          (r.op = "access_link" /\ r.pc = "user" /\ r.snap.expiry_mode = "countdown") =>
             AccessDecision(r.snap, r.ip, now).resp
                = AccessDecision(OnlyViewer(r.snap, r.ip), r.ip, now).resp
    /\ \A ip \in Ips :
          (LinkStored /\ link.expiry_mode = "countdown") =>
             PdfDecision(link, ip, now) = PdfDecision(OnlyViewer(link, ip), ip, now)

\* C6: on a countdown link, a resolve or fetch of one address never changes
\* the session entry of another address, and the result an address gets at a
\* given time does not depend on what the other addresses have done.
C6_Independent == []C6_SameResult /\ C6_Frame

\* two addresses have a session and one of them has just been answered
\* "active" while the window of the other one is over
C6_Witness ==
    /\ LinkStored /\ link.expiry_mode = "countdown"
    /\ Cardinality(DOMAIN link.ip_sessions) = 2
    /\ out.op = "access_link" /\ out.resp.status = "active"
    /\ \E a \in (DOMAIN link.ip_sessions) \ {out.ip} : now >= Deadline(link, a)

\* ---- C7
\* C7 as stated: an "active" answer on a fixed link carries
\* remaining_seconds = fixed deadline - now.
C7_ExactRemaining ==
    (/\ out.op = "access_link" /\ out.resp.status = "active"
     /\ LinkStored /\ link.expiry_mode = "fixed" /\ link.expires_at # None)
    => out.resp.remaining_seconds[1] * TicksPerSec = link.expires_at[2] - out.now

\* an "active" answer on a fixed link was decided before the deadline and
\* carries the deadline and the whole seconds left to it
C7_ActiveAnswer ==
    (/\ out.op = "access_link" /\ out.resp.status = "active"
     /\ LinkStored /\ link.expiry_mode = "fixed" /\ link.expires_at # None)
    => /\ out.now < link.expires_at[2]
       /\ out.resp.expires_at = <<link.expires_at[2]>>
       /\ out.resp.remaining_seconds = <<(link.expires_at[2] - out.now) \div TicksPerSec>>

\* on a fixed link whose owner is subscribed, access_link goes on to "active"
\* when its clock is before the deadline, whatever the address, and
\* get_pdf_file reading its clock at the deadline or later stops there
C7_Decision ==
    [][/\ \A r \in BagToSet(req) :
            (/\ r.op = "access_link" /\ r.pc = "user"
             /\ r.snap.expiry_mode = "fixed" /\ r.snap.expires_at # None
             /\ users[r.snap.user_id] = "active"
             /\ now < r.snap.expires_at[2]
             /\ access_link_user(r))
            => \E r2 \in BagToSet(req') :
                  /\ r2.pc = "record" /\ r2.ip = r.ip
                  /\ r2.resp.remaining_seconds =
                        <<(r.snap.expires_at[2] - now) \div TicksPerSec>>
       /\ \A ip \in Ips :
            (/\ LinkStored /\ link.expiry_mode = "fixed" /\ link.expires_at # None
             /\ now >= link.expires_at[2]
             /\ get_pdf_file_find(ip))
            => (out'.resp.status \in {"404", "410"} /\ req' = req)]_vars

\* C7 (amended): on a fixed link that is not revoked and whose owner is
\* subscribed, every access_link reading its clock before the deadline is
\* answered "active" with remaining_seconds = the whole seconds of
\* (deadline - now), the fraction dropped, the same for every address; no
\* access_link reading its clock at the deadline or later is answered
\* "active" and no get_pdf_file reading it then serves the file.
C7_Fixed == []C7_ActiveAnswer /\ C7_Decision

\* an "active" answer on a fixed link half a second before the deadline
C7_Witness ==
    /\ out.op = "access_link" /\ out.resp.status = "active"
    /\ LinkStored /\ link.expiry_mode = "fixed" /\ link.expires_at # None
    /\ (link.expires_at[2] - out.now) % TicksPerSec # 0

\* ---- C8
\* C8: once get_pdf_file has answered 410 on a fixed link, the stored status
\* of the link is expired.
C8_ExpiredPersisted ==
    (/\ out.op = "get_pdf_file" /\ out.resp.status = "410"
     /\ LinkStored /\ link.expiry_mode = "fixed")
    => link.status = "expired"

\* ---- C9
\* C9: get_pdf_file on a stored countdown link that is not revoked, from an
\* address with no stored session, answers 403 (not 410, not 404) and goes no
\* further: no file is served.
C9_SessionNotEstablished ==
    [][\A ip \in Ips :
          (/\ LinkStored /\ link.status # "revoked"
           /\ link.expiry_mode = "countdown"
           /\ ip \notin DOMAIN link.ip_sessions
           /\ get_pdf_file_find(ip))
          => (out'.resp.status = "403" /\ req' = req)]_vars

\* get_pdf_file has just answered 403 to an address without a session
C9_Witness ==
    /\ out.op = "get_pdf_file" /\ out.resp.status = "403"
    /\ LinkStored /\ link.expiry_mode = "countdown"
    /\ out.ip \notin DOMAIN link.ip_sessions

\* ---- C10
\* C10: no step of get_pdf_file, whatever it answers, changes ip_sessions,
\* open_count, unique_ips, access_log or first_open_at of the link: a step
\* that changes one of them is not a step of get_pdf_file.
C10_FetchFrame ==
    [][(\/ link'.ip_sessions # link.ip_sessions
        \/ link'.open_count # link.open_count
        \/ link'.unique_ips # link.unique_ips
        \/ link'.access_log # link.access_log
        \/ link'.first_open_at # link.first_open_at)
       => ~GetPdfFile]_vars

\* get_pdf_file has just served the file of a countdown link
C10_Witness ==
    /\ out.op = "get_pdf_file" /\ out.resp.status = "200"
    /\ LinkStored /\ link.expiry_mode = "countdown"
    /\ link.open_count > 0

\* ---- C11
\* C11: open_count is never smaller than the number of addresses in
\* unique_ips, whatever the access_link calls and their interleaving.
C11_CountCoversViewers ==
    LinkStored => link.open_count >= Cardinality(link.unique_ips)

\* an address has come back: two opens are counted for one address
C11_Witness ==
    /\ LinkStored
    /\ link.open_count = 2 /\ Cardinality(link.unique_ips) = 1
    /\ out.op = "access_link" /\ out.resp.status = "active"

\* ---- C12
\* access_log never holds more than LogCap (100) entries
C12_Bounded == Len(link.access_log) <= LogCap

\* every answer "active" of access_link, and nothing else, changes
\* access_log: it appends the entry of the call just answered; on a log of
\* LogCap entries the first (earliest inserted) entry goes and the others
\* keep their order
C12_Fifo ==
    [][(/\ LinkStored
        /\ \/ link'.access_log # link.access_log
           \/ out'.op = "access_link" /\ out'.resp.status = "active") =>
         LET new == [ip |-> out'.ip, timestamp |-> <<"iso", out'.now>>]
         IN link'.access_log =
               IF Len(link.access_log) = LogCap
               THEN Append(Tail(link.access_log), new)
               ELSE Append(link.access_log, new)]_vars

\* C12: access_log never exceeds 100 entries, and recording an access on a
\* full log removes the earliest inserted entry, puts the new entry last and
\* keeps the order of the others.
C12_BoundedFifo == []C12_Bounded /\ C12_Fifo

\* the 101st open and more are recorded: the log is full and its first
\* entry is no longer the first entry of the first 100 opens
C12_Witness ==
    /\ link.open_count > LogCap
    /\ Len(link.access_log) = LogCap
    /\ link.access_log[1] # PastLog(LogCap)[1]
    /\ out.op = "access_link" /\ out.resp.status = "active"

\* ---- C13
\* C13: however the calls of access_link overlap, the update of each call
\* that goes on to answer "active" adds exactly one to open_count, appends
\* exactly one entry to access_log after the entries already there and puts
\* its address into unique_ips, losing nothing the other calls have written.
C13_NoLostUpdate ==
    [][\A r \in BagToSet(req) :
          (/\ r.op = "access_link" /\ r.pc = "record"
           /\ LinkStored
           /\ access_link_record(r))
          => /\ link'.open_count = link.open_count + 1
             /\ Len(link'.access_log) = Len(link.access_log) + 1
             /\ SubSeq(link'.access_log, 1, Len(link.access_log)) = link.access_log
             /\ link'.access_log[Len(link'.access_log)].ip = r.ip
             /\ link'.unique_ips = link.unique_ips \cup {r.ip}]_vars

\* two overlapping calls are both recorded: the call that read the clock
\* later was recorded first
C13_Witness ==
    /\ LinkStored
    /\ link.open_count = 2 /\ Len(link.access_log) = 2
    /\ link.access_log[1].timestamp[2] > link.access_log[2].timestamp[2]
    /\ out.op = "access_link" /\ out.resp.status = "active"

\* ---- C14
\* open_count, unique_ips or access_log of the stored link changes
RecordChanges ==
    \/ link'.open_count # link.open_count
    \/ link'.unique_ips # link.unique_ips
    \/ link'.access_log # link.access_log

\* C14: an access is recorded exactly when access_link answers "active": a
\* step answering "active" on a stored link counts one open, appends the one
\* entry of the caller and has the caller in unique_ips; a step answering
\* "revoked", "expired" or 404 changes none of the three; and no other step
\* changes them.
C14_RecordedIffActive ==
    [][/\ (out'.op = "access_link" /\ out'.resp.status = "active" /\ LinkStored) =>
            /\ link'.open_count = link.open_count + 1
            /\ link'.access_log =
                  Append(link.access_log,
                         [ip |-> out'.ip, timestamp |-> <<"iso", out'.now>>])
            /\ out'.ip \in link'.unique_ips
       /\ (out'.op = "access_link" /\ out'.resp.status \in {"revoked", "expired", "404"}) =>
            ~RecordChanges
       /\ (LinkStored /\ link'.state = "stored" /\ RecordChanges) =>
            (out'.op = "access_link" /\ out'.resp.status = "active")]_vars

\* a viewer whose countdown is over is answered "expired" after its open was
\* recorded: the count stays at one
C14_Witness ==
    /\ LinkStored /\ link.expiry_mode = "countdown"
    /\ link.open_count = 1 /\ Len(link.access_log) = 1
    /\ out.op = "access_link" /\ out.resp.status = "expired"
    /\ out.ip \in link.unique_ips

\* ---- C15
\* C15: no step changes a stored status that is expired or revoked to active.
C15_NeverBackToActive ==
    [][(LinkStored /\ link.status \in {"expired", "revoked"} /\ link'.state = "stored")
       => link'.status # "active"]_vars

\* a fixed link that was opened and then revoked is still revoked after its
\* deadline, when get_pdf_file has just refused it
C15_Witness ==
    /\ LinkStored /\ link.expiry_mode = "fixed"
    /\ link.status = "revoked" /\ link.open_count = 1
    /\ now >= link.expires_at[2]
    /\ out.op = "get_pdf_file" /\ out.resp.status = "404"

\* ---- C16
\* C16: once the stored status is expired, no step changes it.
C16_ExpiredTerminal ==
    [][(LinkStored /\ link.status = "expired" /\ link'.state = "stored")
       => link'.status = "expired"]_vars

\* ---- C17
\* the status of a link that is not a fixed link with a deadline is never
\* expired
C17_OnlyFixedExpires ==
    (LinkStored /\ ~(link.expiry_mode = "fixed" /\ link.expires_at # None))
    => link.status # "expired"

\* a step that makes the stored status expired is the answer "expired" of an
\* access_link that read the clock at the fixed deadline or later
C17_ExpiredAtDeadline ==
    [][(/\ LinkStored /\ link'.state = "stored"
        /\ link.status # "expired" /\ link'.status = "expired")
       => /\ link.expiry_mode = "fixed" /\ link.expires_at # None
          /\ out'.op = "access_link" /\ out'.resp.status = "expired"
          /\ out'.now >= link.expires_at[2]]_vars

\* C17: the stored status becomes expired only when access_link evaluates a
\* fixed link at now >= its deadline; the end of a viewer's countdown and an
\* inactive subscription of the owner are answered "expired" but never
\* change the stored status.
C17_ExpiredOnlyByFixed == []C17_OnlyFixedExpires /\ C17_ExpiredAtDeadline

\* a countdown link keeps its status active while a viewer whose window is
\* over is answered "expired"
C17_Witness ==
    /\ LinkStored /\ link.expiry_mode = "countdown" /\ link.status = "active"
    /\ users[link.user_id] = "active"
    /\ out.op = "access_link" /\ out.resp.status = "expired"
    /\ out.resp.message = <<"Your viewing session has expired">>

\* ---- C18
\* C18: an access_link that got past the status check and finds the owner's
\* subscription not active answers "expired" with the subscription message,
\* whatever the expiry mode and the time left, and writes nothing to the
\* link: no session, no first_open_at.
C18_OwnerInactive ==
    [][\A r \in BagToSet(req) :
          (/\ r.op = "access_link" /\ r.pc = "user"
           /\ users[r.snap.user_id] # "active"
           /\ access_link_user(r))
          => /\ out'.op = "access_link" /\ out'.ip = r.ip
             /\ out'.resp.status = "expired"
             /\ out'.resp.message = <<"The owner's subscription is inactive">>
             /\ req' = req (-) SetToBag({r})
             /\ link' = link]_vars

\* the subscription answer on a fixed link before its deadline, nothing
\* having been stored for the caller
C18_Witness ==
    /\ LinkStored /\ link.status = "active"
    /\ link.expiry_mode = "fixed" /\ now < link.expires_at[2]
    /\ users[link.user_id] = "inactive"
    /\ out.op = "access_link"
    /\ out.resp.message = <<"The owner's subscription is inactive">>
    /\ link.open_count = 0 /\ link.first_open_at = None

\* ---- C19
\* C19: every stored countdown link has a countdown above 0 and every
\* stored fixed link has a deadline.
C19_ValidExpiryStored ==
    LinkStored =>
       /\ link.expiry_mode = "countdown" =>
             /\ link.expiry_duration_seconds # None
             /\ link.expiry_duration_seconds[1] > 0
       /\ link.expiry_mode = "fixed" => link.expires_at # None

\* ---- C20
\* C20: a link is stored only while its creator's subscription is active
\* and the file exists and belongs to the creator; a create_link answered
\* 403 or 404 leaves the link collection as it was.
C20_EntitledOwnerAtStore ==
    [][/\ (link.state = "none" /\ link'.state = "stored")
          => /\ users[link'.user_id] = "active"
             /\ pdf.state = "stored" /\ pdf.user_id = link'.user_id
       /\ (out'.op = "create_link" /\ out'.resp.status \in {"403", "404"})
          => link' = link]_vars

\* the user document of a create_link is the caller's as it is stored when
\* the request is authenticated
C20_ReadsCaller ==
    [][\A r \in BagToSet(req') :
          (r.op = "create_link" /\ r.pc = "find" /\ r \notin BagToSet(req))
          => r.user.subscription_status = users[r.user.user_id]]_vars

\* the checks: without a stored file of the caller's the answer is 404,
\* else without an active subscription in the user document it is 403; both
\* end the request and leave the link as it is, and nothing else ends the
\* request at its checks but the TypeError
C20_Checks ==
    [][\A r \in BagToSet(req) :
          (r.op = "create_link" /\ r.pc = "find" /\ create_link_find(r))
          => /\ link' = link
             /\ IF ~(pdf.state = "stored" /\ pdf.user_id = r.user.user_id)
                THEN out'.op = "create_link" /\ out'.resp.status = "404"
                     /\ req' = req (-) SetToBag({r})
                ELSE IF r.user.subscription_status # "active"
                THEN out'.op = "create_link" /\ out'.resp.status = "403"
                     /\ req' = req (-) SetToBag({r})
                ELSE \/ [r EXCEPT !.pc = "insert"] \in BagToSet(req')
                     \/ out'.resp.status = "500"]_vars

\* a link is stored only by a create_link that is past its checks, for its
\* caller, and a create_link goes past its checks only with an active
\* subscription read and the file found
C20_StoredAfterChecks ==
    [][/\ (link.state = "none" /\ link'.state = "stored")
          => /\ out'.op = "create_link" /\ out'.resp.status = "200"
             /\ \E r \in BagToSet(req) :
                   /\ r.op = "create_link" /\ r.pc = "insert"
                   /\ r.user.user_id = link'.user_id
                   /\ r.user.subscription_status = "active"
       /\ \A r \in BagToSet(req') :
             (r.op = "create_link" /\ r.pc = "insert" /\ r \notin BagToSet(req))
             => /\ r.user.subscription_status = "active"
                /\ pdf.state = "stored" /\ pdf.user_id = r.user.user_id
       /\ (out'.op = "create_link" /\ out'.resp.status # "200") => link' = link]_vars

\* C20 as the handler keeps it: create_link stores a link only if the
\* subscription was active when the caller was authenticated and the file
\* was found as the caller's by find_one; otherwise it answers 403 or 404
\* and the link collection is unchanged.
C20_EntitledOwnerAsRead == C20_ReadsCaller /\ C20_Checks /\ C20_StoredAfterChecks

\* an account is refused a link to the file of another account, whose own
\* link is stored and untouched
C20_Witness ==
    /\ LinkStored /\ link.status = "active"
    /\ pdf.state = "stored" /\ pdf.user_id = link.user_id
    /\ out.op = "create_link" /\ out.resp.status = "404"
    /\ \E u \in Accounts : u # pdf.user_id /\ users[u] = "active"

\* ---- C21
\* C21: revoke_link called by the owner on a link that is already revoked
\* answers 200 and leaves the link document as the first call left it.
C21_RevokeIdempotent ==
    [][(/\ LinkStored /\ link.status = "revoked"
        /\ out'.op = "revoke_link" /\ out'.user = link.user_id)
       => /\ out'.resp.status = "200"
          /\ link' = link]_vars

\* the owner has revoked a link that was opened, twice in a row
C21_Witness ==
    /\ LinkStored /\ link.status = "revoked" /\ link.open_count = 1
    /\ out.op = "revoke_link" /\ out.user = link.user_id
    /\ out.resp.status = "200"

\* ---- C22
\* a deleted link document stays deleted: no write of a request in flight,
\* no revoke and no cascade stores it again
C22_StaysDeleted == [][link.state = "gone" => link' = link]_vars

\* access_link and get_pdf_file called on the token of a deleted link
\* answer 404 at their find_one
C22_NotFound ==
    [][link.state = "gone" =>
         \A ip \in Ips :
            (access_link_find(ip) \/ get_pdf_file_find(ip))
            => /\ out'.ip = ip /\ out'.resp.status = "404"
               /\ req' = req]_vars

\* C22: once delete_link has removed the document, every later access_link
\* and get_pdf_file on its token answers 404, for ever: the writes of the
\* requests still in flight, a revoke and the cascade of delete_pdf do not
\* store the document again.
C22_DeletedForGood == C22_StaysDeleted /\ C22_NotFound

\* get_pdf_file has answered 404 on a deleted link while an access_link that
\* read the link before the deletion still has its record to write
C22_Witness ==
    /\ link.state = "gone"
    /\ out.op = "get_pdf_file" /\ out.resp.status = "404"
    /\ \E r \in BagToSet(req) : r.op = "access_link" /\ r.pc = "record"

\* ---- C23
\* C23: the last step of delete_pdf leaves every link of the file in the
\* store with status revoked; open_count, access_log, ip_sessions and every
\* other field are as they were before that step.
C23_CascadeRevokes ==
    [][(del = "deleted" /\ del' = "idle" /\ LinkStored)
       => /\ link'.state = "stored" /\ link'.status = "revoked"
          /\ link' = [link EXCEPT !.status = "revoked"]]_vars

\* the file of a countdown link that was opened once is deleted: the link
\* is revoked and has its count, its log entry and its session
C23_Witness ==
    /\ pdf.state = "deleted" /\ del = "idle"
    /\ LinkStored /\ link.status = "revoked"
    /\ link.expiry_mode = "countdown"
    /\ link.open_count = 1 /\ Len(link.access_log) = 1
    /\ DOMAIN link.ip_sessions # {}

\* ---- C24
\* C24: first_open_at of a stored link, once set, never changes.
C24_FirstOpenWriteOnce ==
    [][(LinkStored /\ link.first_open_at # None /\ link'.state = "stored")
       => link'.first_open_at = link.first_open_at]_vars

\* ---- C25
\* C25: a stored link that has been opened (an access_link has answered
\* "active" and was counted) has first_open_at set, in every expiry mode.
C25_FirstOpenSet ==
    (LinkStored /\ link.open_count >= 1) => link.first_open_at # None

\* ---- C26
\* C26: the documents that were ever inserted into db.links have pairwise
\* different tokens: no two stored links share a token, and a new link never
\* gets the token of a deleted one.
C26_TokensUnique ==
    \A i, j \in DOMAIN link : i # j => link[i].token # link[j].token

\* ---- C27
\* C27: access_link on a stored link with status revoked answers "revoked"
\* at its find_one, whatever the owner's subscription, the expiry mode and
\* the clock, with custom_expired_message when the link has a non-empty one
\* and "This link has been revoked" otherwise; it writes nothing.
C27_RevokedFirst ==
    [][(LinkStored /\ link.status = "revoked") =>
         \A ip \in Ips :
            access_link_find(ip)
            => /\ out'.op = "access_link" /\ out'.ip = ip
               /\ out'.resp.status = "revoked"
               /\ out'.resp.message =
                     IF link.custom_expired_message \in {None, <<"">>}
                     THEN <<"This link has been revoked">>
                     ELSE link.custom_expired_message
               /\ req' = req /\ link' = link]_vars

\* a revoked fixed link past its deadline, the owner's subscription
\* inactive, answers "revoked" with the owner's message
C27_Witness ==
    /\ LinkStored /\ link.status = "revoked"
    /\ link.expiry_mode = "fixed" /\ now >= link.expires_at[2]
    /\ users[link.user_id] = "inactive"
    /\ out.op = "access_link" /\ out.resp.status = "revoked"
    /\ out.resp.message = <<"gone">>

\* ---- C28
\* the one response to a token without a document: HTTP 404 and nothing else
NotFoundAnswer(op, ip) ==
    [op |-> op, ip |-> ip, now |-> now, resp |-> [NoResp EXCEPT !.status = "404"]]

\* C28: access_link and get_pdf_file called on a token that has no document
\* give the same response, and change nothing, whether the link was never
\* created or was created and deleted.
C28_UniformNotFound ==
    [][~LinkStored =>
         \A ip \in Ips :
            /\ access_link_find(ip)
               => out' = NotFoundAnswer("access_link", ip) /\ req' = req /\ link' = link
            /\ get_pdf_file_find(ip)
               => out' = NotFoundAnswer("get_pdf_file", ip) /\ req' = req /\ link' = link]_vars

\* the 404 of access_link on a deleted link whose file is still stored
C28_Witness ==
    /\ link.state = "gone" /\ pdf.state = "stored"
    /\ out.op = "access_link" /\ out.resp.status = "404"
    /\ req = EmptyBag

\* ---- C29
\* C29: get_links returns the caller's links and no other; get_link_stats
\* answers 200 only for a link of the caller's; revoke_link, delete_link
\* and get_link_stats on a link that is not stored or belongs to another
\* account answer 404, and then, as after every get_links and
\* get_link_stats, the link is unchanged.
C29_OwnLinksOnly ==
    [][/\ (/\ out'.op \in {"revoke_link", "delete_link", "get_link_stats"}
           /\ ~(LinkStored /\ link.user_id = out'.user))
          => out'.resp.status = "404" /\ link' = link
       /\ out'.op = "get_links"
          => /\ \A i \in DOMAIN out'.body : out'.body[i].user_id = out'.user
             /\ (LinkStored /\ link.user_id = out'.user) => out'.body = <<link>>
             /\ link' = link
       /\ out'.op = "get_link_stats"
          => /\ link' = link
             /\ out'.resp.status = "200"
                => link.user_id = out'.user /\ out'.body = <<LinkStats(link)>>]_vars

\* the revoke of another account's link is refused and the link is active
C29_Witness ==
    /\ LinkStored /\ link.status = "active" /\ link.open_count = 1
    /\ out.op = "revoke_link" /\ out.user # link.user_id
    /\ out.resp.status = "404"

\* ---- C30
\* the mode that admin_get_stripe_settings reports is sandbox or live, and
\* so is the mode of the stored document when it has one
C30_ModeValid ==
    /\ out.op = "admin_get_stripe_settings" => out.body.mode \in {"sandbox", "live"}
    /\ (stripe.doc # None /\ stripe.doc[1].mode # None)
       => stripe.doc[1].mode[1] \in {"sandbox", "live"}
    /\ StripeSettings(stripe).mode \in {"sandbox", "live"}

\* an update with a mode that is neither sandbox nor live, or with a
\* non-empty key that starts with neither sk_test_ nor sk_live_, answers
\* 400 and leaves the settings as they are
C30_Rejected ==
    [][\A key \in KeyInputs, mode \in ModeInputs :
          (/\ \/ mode # None /\ mode[1] \notin {"sandbox", "live"}
              \/ /\ key # None /\ key[1] # EmptyKey
                 /\ key[1][1] \notin {"sk_test_", "sk_live_"}
           /\ admin_update_stripe_settings(key, mode))
          => out'.resp.status = "400" /\ stripe' = stripe]_vars

\* C30: after any sequence of updates of the Stripe settings, accepted or
\* rejected, the settings read reports mode sandbox or live; an update with
\* another mode, or with a non-empty key of another prefix, is rejected and
\* changes nothing.
C30_StripeSettings == []C30_ModeValid /\ C30_Rejected

\* a live key and mode live are stored, an update with mode "test" has just
\* been refused
C30_Witness ==
    /\ stripe.doc # None
    /\ stripe.doc[1].mode = <<"live">>
    /\ stripe.doc[1].stripe_key = <<(<<"sk_live_", "l123">>)>>
    /\ out.op = "admin_update_stripe_settings" /\ out.resp.status = "400"
    /\ out.body = <<"Mode must be 'sandbox' or 'live'">>

\* ---- C31
\* the step just taken has told address ip that its countdown is over:
\* "expired" for the session from access_link, or 410 from get_pdf_file
ExpiredTo(ip) ==
    /\ link.expiry_mode = "countdown" /\ out.ip = ip
    /\ \/ /\ out.op = "access_link" /\ out.resp.status = "expired"
          /\ out.resp.message # <<"The owner's subscription is inactive">>
       \/ out.op = "get_pdf_file" /\ out.resp.status = "410"

\* C31, for a get_pdf_file that starts after the answer: on a countdown
\* link, when an address has just been told that its countdown is over, the
\* next step leaves the store in a state where a get_pdf_file of that
\* address does not get past the checks to the file.
C31_ExpiredForGood ==
    [][\A ip \in Ips :
         (ExpiredTo(ip) /\ link'.state = "stored" /\ link'.expiry_mode = "countdown")
         => PdfDecision(link', ip, now').pc # "pdf"]_vars

\* ---- C32
\* C32: on a stored countdown link, when get_pdf_file has served the file to
\* an address, access_link has recorded an open of that address: the
\* address is in unique_ips and open_count is at least 1.
C32_RecordedBeforeServed ==
    (/\ out.op = "get_pdf_file" /\ out.resp.status = "200"
     /\ LinkStored /\ link.expiry_mode = "countdown")
    => out.ip \in link.unique_ips /\ link.open_count >= 1

\* ---- C33
\* C33: a get_pdf_file that finds the owner's subscription not active when
\* it starts does not get past its checks to the file.
C33_FetchNeedsSubscription ==
    [][(LinkStored /\ users[link.user_id] # "active") =>
         \A ip \in Ips :
            get_pdf_file_find(ip)
            => req' = req /\ out'.op = "get_pdf_file" /\ out'.resp.status # "200"]_vars

\* ---- C34
\* every stored session ends at its first_open plus the countdown of the link
C34_StoredDeadline ==
    (LinkStored /\ link.expiry_mode = "countdown") =>
       \A q \in DOMAIN link.ip_sessions :
          FromIsoFormat(link.ip_sessions[q].expires_at)
             = FromIsoFormat(link.ip_sessions[q].first_open)
               + Seconds(link.expiry_duration_seconds[1])

\* for every address whose session the handlers find and every time,
\* access_link (owner subscribed, link not revoked) answers "expired"
\* exactly when get_pdf_file answers 410
C34_SameVerdict ==
    (/\ LinkStored /\ link.expiry_mode = "countdown"
     /\ link.status # "revoked" /\ users[link.user_id] = "active") =>
       \A ip \in Ips, t \in 0..(MaxTime + TicksPerSec) :
          ClientIpIn(ip, link.ip_sessions) =>
             (AccessDecision(link, ip, t).resp.status = "expired"
              <=> PdfDecision(link, ip, t).status = "410")

\* C34: the stored deadline of every session of a countdown link is its
\* start plus the countdown of the link, so access_link, which adds the
\* countdown to the stored start, and get_pdf_file, which reads the stored
\* deadline, find a viewer expired at the same times.
C34_DeadlinesAgree == C34_StoredDeadline /\ C34_SameVerdict

\* a session is stored and over: get_pdf_file has answered 410
C34_Witness ==
    /\ LinkStored /\ link.expiry_mode = "countdown"
    /\ link.status = "active" /\ users[link.user_id] = "active"
    /\ <<"a">> \in DOMAIN link.ip_sessions
    /\ out.op = "get_pdf_file" /\ out.ip = <<"a">> /\ out.resp.status = "410"

\* ---- C35
\* C35: while the stored status is revoked, open_count, unique_ips,
\* access_log, ip_sessions and first_open_at of the link do not change.
C35_RevokedFrozen ==
    [][(LinkStored /\ link.status = "revoked" /\ link'.state = "stored")
       => /\ link'.open_count = link.open_count
          /\ link'.unique_ips = link.unique_ips
          /\ link'.access_log = link.access_log
          /\ link'.ip_sessions = link.ip_sessions
          /\ link'.first_open_at = link.first_open_at]_vars

\* ---- C36
\* C36: once delete_pdf has run to its end, no stored link of the file has
\* status active.
C36_NoActiveLinkOfDeletedFile ==
    (pdf.state = "deleted" /\ del = "idle" /\ LinkStored) => link.status # "active"

\* ---- C37
\* C37: in every state the access_log of a stored link has
\* min(open_count, 100) entries: an access is counted and logged by one
\* update.
C37_LogLenIsCount ==
    LinkStored =>
       Len(link.access_log) = IF link.open_count < LogCap THEN link.open_count ELSE LogCap

\* the log is full and more opens are counted than it holds
C37_Witness ==
    /\ LinkStored /\ link.open_count = LogCap + MaxOpens
    /\ Len(link.access_log) = LogCap

\* ------------------------------------------------- get_dashboard_stats
\* timedelta(days = n)
Days(n) == Seconds(n * 86400)

\* {"$gte": seven_days_ago} compares two strings; both are isoformat() of
\* datetime.now(timezone.utc), whose order as strings is their order in time
IsoGte(a, b) == FromIsoFormat(a) >= FromIsoFormat(b)

RECURSIVE SumSeq(_)
SumSeq(s) == IF s = <<>> THEN 0 ELSE Head(s) + SumSeq(Tail(s))

\* {"$match": {"user_id": user["user_id"]}}
Matched(links, u) == SelectSeq(links, LAMBDA l : l.state = "stored" /\ l.user_id = u)

\* count_documents({"user_id": ..., "status": s})
CountStatus(links, u, s) == Len(SelectSeq(Matched(links, u), LAMBDA l : l.status = s))

\* {"$group": {"_id": None, "total_views": {"$sum": "$open_count"}}}
total_views(links, u) ==
    LET m == Matched(links, u) IN SumSeq([i \in DOMAIN m |-> m[i].open_count])

\* $unwind unique_ips, $group by the address, $count
unique_viewers(links, u) ==
    LET m == Matched(links, u)
    IN Cardinality(UNION {m[i].unique_ips : i \in DOMAIN m})

\* seven_days_ago = (datetime.now(timezone.utc) - timedelta(days=7)).isoformat()
seven_days_ago(t) == IsoFormat(t - Days(7))

\* the scan of the logs without {"$match": {"user_id": user["user_id"]}}
recent_views_all(links, u, t) ==
    LET m == SelectSeq(links, LAMBDA l : l.state = "stored")
    IN SumSeq([i \in DOMAIN m |->
          Len(SelectSeq(m[i].access_log,
                        LAMBDA e : IsoGte(e.timestamp, seven_days_ago(t))))])

\* $unwind access_log, $match timestamp >= seven_days_ago, $count
recent_views(links, u, t) ==
    LET m == Matched(links, u)
    IN SumSeq([i \in DOMAIN m |->
          Len(SelectSeq(m[i].access_log,
                        LAMBDA e : IsoGte(e.timestamp, seven_days_ago(t))))])

\* the counts of the body in the order the handler awaits them (the fields
\* read from the user document, storage and plan, are left out)
DashFields ==
    <<"pdf_count", "link_count", "active_links", "expired_links", "revoked_links",
      "total_views", "unique_viewers", "recent_views_7d">>

DashValue(f, u, t) ==
    CASE f = "pdf_count" -> IF pdf.state = "stored" /\ pdf.user_id = u THEN 1 ELSE 0
      [] f = "link_count" -> Len(Matched(link, u))
      [] f = "active_links" -> CountStatus(link, u, "active")
      [] f = "expired_links" -> CountStatus(link, u, "expired")
      [] f = "revoked_links" -> CountStatus(link, u, "revoked")
      [] f = "total_views" -> total_views(link, u)
      [] f = "unique_viewers" -> unique_viewers(link, u)
      [] f = "recent_views_7d" -> recent_views(link, u, t)

\* get_dashboard_stats: get_current_user
get_dashboard_stats_auth(u) ==
    /\ req = EmptyBag
    /\ users[u] # "absent"
    /\ req' = SetToBag({[op |-> "get_dashboard_stats", user |-> u, counts |-> <<>>]})
    /\ out' = NoOut
    /\ UNCHANGED <<stripe, now, users, pdf, link, del>>

\* get_dashboard_stats: the next count_documents or aggregate; the last
\* of them is followed by the return
get_dashboard_stats_count(r) ==
    /\ r.op = "get_dashboard_stats"
    /\ LET f == DashFields[Len(r.counts) + 1]
           counts == Append(r.counts, DashValue(f, r.user, now))
       IN IF Len(counts) < Len(DashFields)
          THEN /\ req' = SetToBag({[r EXCEPT !.counts = counts]})
               /\ out' = NoOut
          ELSE /\ req' = EmptyBag
               /\ out' = OwnerAnswer("get_dashboard_stats", r.user, "200",
                                     <<[i \in DOMAIN DashFields |-> counts[i]]>>)
    /\ UNCHANGED <<stripe, now, users, pdf, link, del>>

\* the access_log of n opens, the first k of them seven days before the
\* first tick to the tick, the others in the first tick
DashLog(n, k) ==
    [i \in 1..n |-> AccessEntry(IF i % 2 = 1 THEN <<"a">> ELSE <<"10", "1">>,
                                 IF i <= k THEN 0 - Days(7) ELSE 0)]

\* a manual link of u that was opened n times, k of them seven days ago
DashLink(u, n, k) ==
    [OpenedLink(n) EXCEPT !.user_id = u,
                          !.access_log = DashLog(IF n < LogCap THEN n ELSE LogCap, k)]

\* access_link on the i-th link, a manual link: its one write, update_ops
dash_access_link(i, ip) ==
    /\ link[i].state = "stored" /\ link[i].status = "active"
    /\ ~OwnerInactive(link[i])
    /\ link[i].open_count < LogCap + 1
    /\ link' = [link EXCEPT ![i] = RecordAccess(link[i], link[i], ip, now)]
    /\ out' = NoOut
    /\ UNCHANGED <<stripe, now, users, pdf, req, del>>

\* two links with long logs, the second of either account
DashInit ==
    /\ now = 0
    /\ users = [u \in Accounts |-> "active"]
    /\ pdf = [state |-> "stored", user_id |-> "u1"]
    /\ \E n \in {LogCap - 1, LogCap}, k \in {0, 2}, u \in Accounts :
          link = <<DashLink("u1", n, k), DashLink(u, LogCap, 2)>>
    /\ req = EmptyBag
    /\ out = NoOut
    /\ del = "idle"
    /\ stripe = NoStripe

DashNext ==
    \/ Tick
    \/ \E i \in DOMAIN link, ip \in Ips : dash_access_link(i, ip)
    \/ \E u \in Accounts : get_dashboard_stats_auth(u)
    \/ \E r \in BagToSet(req) : get_dashboard_stats_count(r)

DashSpec == DashInit /\ [][DashNext]_vars

\* ---- C38
\* min(100, open_count) summed over the links of u
RetainedBound(links, u) ==
    LET m == Matched(links, u)
    IN SumSeq([i \in DOMAIN m |-> IF m[i].open_count < LogCap THEN m[i].open_count ELSE LogCap])

\* C38: in every state of the store the seven-day count of an owner, taken
\* at any time, is at most the sum over the owner's links of
\* min(100, open_count) and at most the owner's total of opens.
C38_RecentBounded ==
    \A u \in Accounts, t \in 0..MaxTime :
       /\ recent_views(link, u, t) <= RetainedBound(link, u)
       /\ recent_views(link, u, t) <= total_views(link, u)

\* a dashboard answer whose seven-day count is below the retained entries,
\* which are fewer than the opens
C38_Witness ==
    /\ out.op = "get_dashboard_stats" /\ out.user = "u1"
    /\ out.body[1][8] = recent_views(link, "u1", now)
    /\ out.body[1][8] < RetainedBound(link, "u1")
    /\ RetainedBound(link, "u1") < total_views(link, "u1")
====
